---- MODULE Spec2Model ----
(***************************************************************************)
(* "Name That Tango Tune": the Quiz component of the FE-POC prototypes.    *)
(*                                                                         *)
(* Four iterations of the component are modelled, selected by `version`:   *)
(*   "retry"    src/FE-POC/src/app/page.js, lines 1-320   (flat -10, 10 s) *)
(*   "feedback" src/unnamed/part_000                      (flat -10, 10 s) *)
(*   "config"   src/unnamed/part_001          (configurable, 5% penalty)   *)
(*   "beta"     src/FE-POC/src/app/page.js, lines 321-736 (configurable,   *)
(*              useCallback, filtered catalog)                             *)
(* The first iteration, in which any answer ends the round, is modelled as *)
(*   "poc"      src/FE-POC/src/app/POC/page.js    (flat -10, 10 s)         *)
(* and runs under PocSpec only.                                            *)
(*                                                                         *)
(* React semantics assumed (React 18 root, as the Next.js app router       *)
(* requires):                                                              *)
(*  - a click handler runs with the values of the latest render; the       *)
(*    state updates of a click are rendered, and the effects of that       *)
(*    render run, before the next event is handled (discrete events are    *)
(*    flushed synchronously);                                              *)
(*  - the state updates of a timer callback, a promise callback or a media *)
(*    event are applied in order, but the effects of their render run in a *)
(*    later task (ReactFlush); interval callbacks may fire before it;      *)
(*  - an interval callback keeps the values of the render whose effect     *)
(*    registered it (tickClosure);                                         *)
(*  - interval callbacks that fall due at the same instant run back to     *)
(*    back in the order the intervals were registered (timeDue).           *)
(*                                                                         *)
(* Numbers: score and sessionScore are exact rationals, stored multiplied  *)
(* by ScoreScale; timeElapsed counts the 0.1 s increments added so far.    *)
(***************************************************************************)
EXTENDS Integers, Sequences, FiniteSets, Bags, TLC

-----------------------------------------------------------------------------
(* Bounds of the model *)

\* 100 ms periods explored per round under Spec (RoundSpec has no such cap)
MaxTicks == 2
\* wrong guesses explored per round
MaxWrong == 1
\* rounds explored per session under Spec
MaxRounds == 2
\* 100 ms periods that may pass while the effects of a render are still pending
MaxLate == 1
\* readiness polls registered per round
MaxPolls == 1
\* 100 ms periods explored under PocSpec: the 10 seconds and a few more
MaxPocTicks == 104
\* wrong guesses explored per round under RetrySpec
MaxRetries == 3
\* longest array handed to shuffleArray on its own
MaxShuffle == 4

-----------------------------------------------------------------------------
(* Inputs *)

Versions == {"retry", "feedback", "config", "beta"}
Configurable(v) == v \in {"config", "beta"}

\* what the user may type into the "Time Limit (sec)" field
TimeLimitTexts == {"", "-1", "1", "21"}
\* what the user may type into the "Number of Songs" field
SongCountTexts == {"", "0", "1", "-1"}
\* values Math.floor(Math.random() * 90) may return
StartOffsets == {0, 89}

NoSong == [Title |-> "", ArtistMaster |-> "", AudioUrl |-> ""]
NoAnswer == "<null>"
\* a track without the performer field
Missing == "<undefined>"

\* /songData/*.json as fetched: the tracks and the performers
SongData ==
    { [Title |-> "La cumparsita", ArtistMaster |-> "Canaro", AudioUrl |-> "a1.mp3"],
      [Title |-> "Bahia Blanca", ArtistMaster |-> "Di Sarli", AudioUrl |-> "a2.mp3"] }
ArtistData ==
    { [artist |-> "Canaro", level |-> "1", active |-> "true", attributes |-> {"classic"}],
      [artist |-> "Di Sarli", level |-> "1", active |-> "true", attributes |-> {"smooth"}] }

\* other contents the two files can have: track fields that are padded, blank,
\* missing or name nobody of the catalog; a catalog with spellings of one name;
\* a catalog of five with an inactive performer; a catalog in which three
\* performers share a tag with a fourth
Track(title, performer, url) == [Title |-> title, ArtistMaster |-> performer, AudioUrl |-> url]
Performer(name, act, attrs) ==
    [artist |-> name, level |-> "1", active |-> act, attributes |-> attrs]

OddSongData ==
    { Track("La cumparsita", "Canaro", "a1.mp3"),
      Track("Poema", " Canaro ", "a3.mp3"),
      Track("Sin titulo", " ", "a4.mp3"),
      Track("Sin campo", Missing, "a5.mp3"),
      Track("Indio manso", "Biagi", "a6.mp3") }
SpellingsArtistData ==
    { Performer("Canaro", "true", {"classic"}),
      Performer(" canaro ", "true", {"classic"}),
      Performer("CANARO", "true", {"classic"}),
      Performer("Di Sarli", "true", {"smooth"}) }
FiveArtistData ==
    ArtistData \cup
    { Performer("Troilo", "true", {"classic"}),
      Performer("D'Arienzo", "true", {"rhythmic"}),
      Performer("Pugliese", "false", {"dramatic"}) }
AffinityArtistData ==
    { Performer("Canaro", "true", {"classic"}),
      Performer("Troilo", "true", {"classic"}),
      Performer("D'Arienzo", "true", {"classic", "rhythmic"}),
      Performer("Biagi", "true", {"classic"}),
      Performer("Di Sarli", "true", {"smooth"}) }
FiveSongData ==
    { Track("La cumparsita", "Canaro", "a1.mp3"),
      Track("La yumba", "Pugliese", "a7.mp3") }

DataSets ==
    { [songs |-> SongData, artists |-> ArtistData],
      [songs |-> OddSongData, artists |-> ArtistData],
      [songs |-> {Track("La cumparsita", "Canaro", "a1.mp3")}, artists |-> SpellingsArtistData],
      [songs |-> FiveSongData, artists |-> FiveArtistData],
      [songs |-> {Track("La cumparsita", "Canaro", "a1.mp3")}, artists |-> AffinityArtistData],
      [songs |-> {}, artists |-> ArtistData],
      [songs |-> {Track("La yumba", "Pugliese", "a7.mp3")}, artists |-> FiveArtistData],
      [songs |-> SongData, artists |-> {Performer("Pugliese", "false", {"dramatic"})}] }

-----------------------------------------------------------------------------
(* Arithmetic helpers *)

Abs(n) == IF n < 0 THEN -n ELSE n
Sign(n) == IF n < 0 THEN -1 ELSE 1
Max(a, b) == IF a >= b THEN a ELSE b

RECURSIVE GCD(_, _)
GCD(a, b) == IF b = 0 THEN a ELSE GCD(b, a % b)

RECURSIVE LCMOf(_)
LCMOf(S) ==
    IF S = {} THEN 1
    ELSE LET x == CHOOSE y \in S : TRUE
             r == LCMOf(S \ {x})
         IN  (x * r) \div GCD(x, r)

\* parseInt(e.target.value): NaN for the empty field
NaN == [nan |-> TRUE, n |-> 0]
Num(n) == [nan |-> FALSE, n |-> n]
parseInt(txt) ==
    CASE txt = ""   -> NaN
      [] txt = "0"  -> Num(0)
      [] txt = "1"  -> Num(1)
      [] txt = "-1" -> Num(-1)
      [] txt = "21" -> Num(21)

\* v || d : NaN and 0 are falsy
OrElse(v, d) == IF v.nan \/ v.n = 0 THEN d ELSE v.n

DefaultTimeLimit == 15
DefaultNumberOfSongs == 3
FixedTimeLimit == 10
FixedBasePoints == 100

TimeLimits ==
    {DefaultTimeLimit, FixedTimeLimit} \cup {OrElse(parseInt(t), 10) : t \in TimeLimitTexts}

\* score * ScoreScale is an integer for every score the model computes:
\* decrements are basePoints / (10 * timeLimit), penalties basePoints / 20
ScoreScale == LCMOf({20 * Abs(t) : t \in TimeLimits})

\* Math.round(x): the nearest integer, halves rounded up
MathRound(x) == ((2 * x + ScoreScale) \div (2 * ScoreScale)) * ScoreScale

\* x.toFixed(0): the nearest integer, halves rounded away from zero, as text
toFixed0(x) == Sign(x) * ((2 * Abs(x) + ScoreScale) \div (2 * ScoreScale))

\* timeElapsed is advanced by `prev + 0.1` in IEEE doubles, so the sum of k
\* increments is not k/10: TicksToReach[t] is the least k for which the
\* accumulated double is >= t (t = 1..30)
TicksToReach ==
    << 11,  20,  30,  40,  51,  61,  71,  81,  91, 101,
      111, 121, 131, 141, 151, 161, 171, 181, 190, 200,
      210, 220, 230, 240, 250, 260, 270, 280, 290, 300 >>

\* next >= tLimit, where next is the double after `ticks` increments of 0.1
ReachesLimit(ticks, tLimit) ==
    IF tLimit <= 0 THEN TRUE ELSE ticks >= TicksToReach[tLimit]

-----------------------------------------------------------------------------
(* Names *)

\* a comparison that tells upper case from lower case
KeepCase(s) == s

\* String.prototype.trim on the names that occur: surrounding blanks removed
trim(s) ==
    CASE s = " Canaro "   -> "Canaro"
      [] s = " canaro "   -> "canaro"
      [] s = "Di Sarli "  -> "Di Sarli"
      [] s = "di sarli "  -> "di sarli"
      [] s = " "          -> ""
      [] OTHER            -> s

\* String.prototype.toLowerCase on the names that occur
toLowerCase(s) ==
    CASE s = "Canaro"     -> "canaro"
      [] s = "CANARO"     -> "canaro"
      [] s = " Canaro "   -> " canaro "
      [] s = "Di Sarli"   -> "di sarli"
      [] s = "Di Sarli "  -> "di sarli "
      [] s = "Unknown"    -> "unknown"
      [] s = "Troilo"     -> "troilo"
      [] s = "D'Arienzo"  -> "d'arienzo"
      [] s = "Pugliese"   -> "pugliese"
      [] s = "Biagi"      -> "biagi"
      [] OTHER            -> s

\* x || ""
FieldOrEmpty(x) == IF x = Missing THEN "" ELSE x

\* userAnswer === correct, both trimmed and lower-cased
Matches(answer, correct) == toLowerCase(trim(answer)) = toLowerCase(trim(correct))

-----------------------------------------------------------------------------
(* State *)

VARIABLES
    version,            \* which iteration of the component runs
    \* React state of Quiz
    songs, artists, currentSong, answers, selectedAnswer, basePoints, score,
    timeElapsed, isPlaying, quizOver, audioStartTime, sessionScore,
    correctAnswer, feedbackMessage, finalMessage, metadataLoaded,
    showConfigModal, timeLimit, numberOfSongs, songsPlayed,
    \* refs and the browser timers behind them
    scoreIntervalRef,   \* TRUE iff scoreIntervalRef.current holds an interval id
    timerIntervalRef,   \* TRUE iff timerIntervalRef.current holds an interval id
    scoreTimers,        \* number of registered score-decay intervals
    timeTimers,         \* number of registered elapsed-time intervals
    tickClosure,        \* values of the render whose effect registered the intervals
    timeDue,            \* the score tick of this period ran, the time tick is due
    polls,              \* number of registered checkInterval timers of startAudio
    \* the <audio> element
    audio,              \* [src, paused, currentTime, loading]
    playPending,        \* a promise returned by play() is not settled yet
    \* React scheduling
    rendered,           \* dependency values of the last render whose effects ran
    late,               \* 100 ms periods passed since effects became pending
    unmounted,          \* an effect threw and React removed the component
    fetched,            \* the two fetches of the mount effect have resolved
    \* history
    roundsLoaded,       \* rounds loaded so far in the session
    wrongGuesses,       \* wrong guesses made in the current round
    frozenTotal,        \* sum of the final scores shown for the rounds replaced so far
    \* one call of shuffleArray taken on its own
    shuffleRun          \* [given, array, indices, arr, returned]

quizVars ==
    << version, songs, artists, currentSong, answers, selectedAnswer, basePoints,
       score, timeElapsed, isPlaying, quizOver, audioStartTime, sessionScore,
       correctAnswer, feedbackMessage, finalMessage, metadataLoaded,
       showConfigModal, timeLimit, numberOfSongs, songsPlayed, scoreIntervalRef,
       timerIntervalRef, scoreTimers, timeTimers, tickClosure, timeDue, polls,
       audio, playPending, rendered, late, unmounted, fetched, roundsLoaded,
       wrongGuesses, frozenTotal >>

vars == << quizVars, shuffleRun >>

\* the current state as one record, so that a handler and the renders that
\* follow it compose
Cur ==
    [ songs |-> songs, artists |-> artists, currentSong |-> currentSong,
      answers |-> answers, selectedAnswer |-> selectedAnswer,
      basePoints |-> basePoints, score |-> score, timeElapsed |-> timeElapsed,
      isPlaying |-> isPlaying, quizOver |-> quizOver,
      audioStartTime |-> audioStartTime, sessionScore |-> sessionScore,
      correctAnswer |-> correctAnswer, feedbackMessage |-> feedbackMessage,
      finalMessage |-> finalMessage, metadataLoaded |-> metadataLoaded,
      showConfigModal |-> showConfigModal, timeLimit |-> timeLimit,
      numberOfSongs |-> numberOfSongs, songsPlayed |-> songsPlayed,
      scoreIntervalRef |-> scoreIntervalRef, timerIntervalRef |-> timerIntervalRef,
      scoreTimers |-> scoreTimers, timeTimers |-> timeTimers,
      tickClosure |-> tickClosure, timeDue |-> timeDue, polls |-> polls,
      audio |-> audio, playPending |-> playPending, rendered |-> rendered,
      late |-> late, unmounted |-> unmounted, fetched |-> fetched,
      roundsLoaded |-> roundsLoaded, wrongGuesses |-> wrongGuesses,
      frozenTotal |-> frozenTotal ]

Becomes(r) ==
    /\ version' = version
    /\ songs' = r.songs
    /\ artists' = r.artists
    /\ currentSong' = r.currentSong
    /\ answers' = r.answers
    /\ selectedAnswer' = r.selectedAnswer
    /\ basePoints' = r.basePoints
    /\ score' = r.score
    /\ timeElapsed' = r.timeElapsed
    /\ isPlaying' = r.isPlaying
    /\ quizOver' = r.quizOver
    /\ audioStartTime' = r.audioStartTime
    /\ sessionScore' = r.sessionScore
    /\ correctAnswer' = r.correctAnswer
    /\ feedbackMessage' = r.feedbackMessage
    /\ finalMessage' = r.finalMessage
    /\ metadataLoaded' = r.metadataLoaded
    /\ showConfigModal' = r.showConfigModal
    /\ timeLimit' = r.timeLimit
    /\ numberOfSongs' = r.numberOfSongs
    /\ songsPlayed' = r.songsPlayed
    /\ scoreIntervalRef' = r.scoreIntervalRef
    /\ timerIntervalRef' = r.timerIntervalRef
    /\ scoreTimers' = r.scoreTimers
    /\ timeTimers' = r.timeTimers
    /\ tickClosure' = r.tickClosure
    /\ timeDue' = r.timeDue
    /\ polls' = r.polls
    /\ audio' = r.audio
    /\ playPending' = r.playPending
    /\ rendered' = r.rendered
    /\ late' = r.late
    /\ unmounted' = r.unmounted
    /\ fetched' = r.fetched
    /\ roundsLoaded' = r.roundsLoaded
    /\ wrongGuesses' = r.wrongGuesses
    /\ frozenTotal' = r.frozenTotal
    /\ shuffleRun' = shuffleRun

NoClosure == [score |-> 0, basePoints |-> 0, timeLimit |-> 0]
NoAudio == [src |-> "", paused |-> TRUE, currentTime |-> 0, loading |-> FALSE]
AllPlayedMessage == "All songs played. Session complete!"

\* the <audio> element is rendered: {currentSong && !showConfigModal && ...}
AudioMounted(s) == s.currentSong # NoSong /\ ~s.showConfigModal /\ ~s.unmounted

\* the round is over, and it is a round that was played (not the notice that
\* the session is complete)
RoundEnded(s) == s.quizOver /\ s.currentSong # NoSong /\ s.finalMessage # AllPlayedMessage

\* "Final Score for this Song": Math.round(score) in the configurable
\* versions, score in the others
FinalScoreShown(s) == IF Configurable(version) THEN MathRound(s.score) ELSE s.score

-----------------------------------------------------------------------------
(* Deliberately different rules, against which the properties below are tried *)

\* base points that never go below zero
ClampedBasePoints(tLimit) ==
    IF tLimit <= 10 THEN 100 + (10 - tLimit) * 20
    ELSE IF tLimit >= 20 THEN 0 ELSE 100 - (tLimit - 10) * 10

\* the flat penalty of the earlier iterations
FlatPenalty(bp) == 10 * ScoreScale

\* a stop that leaves playback as it is
KeepPlaying(s) == s

\* a Next Song button that is rendered whatever the phase of the round
AlwaysShown(s) == TRUE

\* a Play button that calls play() whether or not the metadata has arrived
PlayAtOnce(s) ==
    [s EXCEPT !.audio = [@ EXCEPT !.currentTime = s.audioStartTime, !.paused = FALSE],
              !.playPending = TRUE]

\* a stop that updates the state and leaves the <audio> element alone
StopWithoutPause(s) == [s EXCEPT !.isPlaying = FALSE]

\* a stop after which a play() promise that was pending is still fulfilled
StopKeepsPromise(s) ==
    [s EXCEPT !.audio = IF AudioMounted(s) THEN [@ EXCEPT !.paused = TRUE] ELSE @,
              !.isPlaying = FALSE]

-----------------------------------------------------------------------------
(* Scoring *)

calculateBasePoints(tLimit) ==
    IF tLimit = 10 THEN 100
    ELSE IF tLimit < 10 THEN 100 + (10 - tLimit) * 20
    ELSE 100 - (tLimit - 10) * 10

\* const decrement = basePoints / (timeLimit * 10.0), times ScoreScale
Decrement(bp, tLimit) == Sign(tLimit) * bp * (ScoreScale \div (10 * Abs(tLimit)))

\* the score interval's updater: Math.max(prev - decrement, 0) in the
\* configurable versions, Math.max(prev - 1, -9999) in the others
ScoreAfterTick(prev, cl) ==
    IF Configurable(version)
    THEN Max(prev - Decrement(cl.basePoints, cl.timeLimit), 0)
    ELSE Max(prev - ScoreScale, (-9999) * ScoreScale)

\* const penalty = basePoints * 0.05, times ScoreScale
Penalty(bp) == bp * (ScoreScale \div 20)

\* a wrong-answer updater that stops at 0 in every iteration
FlooredAfterWrong(prev, bp) ==
    IF Configurable(version) THEN Max(prev - Penalty(bp), 0) ELSE Max(prev - 10 * ScoreScale, 0)

\* the wrong-answer updater: Math.max(prev - penalty, 0) in the configurable
\* versions, prev - 10 in the others
ScoreAfterWrong(prev, bp) ==
    IF Configurable(version) THEN Max(prev - Penalty(bp), 0) ELSE prev - 10 * ScoreScale

WrongFeedback(bp) ==
    IF version = "retry" THEN ""
    ELSE IF version = "feedback" THEN "Wrong answer! -10 points"
    ELSE "Wrong answer! -" \o ToString(toFixed0(Penalty(bp))) \o " points"

\* the performance message of finalizeQuiz for finalPoints (times ScoreScale)
PerformanceMessage(finalPoints, bp) ==
    LET b == IF Configurable(version) THEN bp ELSE FixedBasePoints
    IN  IF version = "retry" THEN ""
        ELSE IF 10 * finalPoints > 8 * b * ScoreScale THEN "Excellent job!"
        ELSE IF 10 * finalPoints > 5 * b * ScoreScale THEN "Great work!"
        ELSE IF 10 * finalPoints > 2 * b * ScoreScale THEN "Not bad!"
        ELSE "Better luck next time."

-----------------------------------------------------------------------------
(* Audio and finalization *)

\* audioRef.current.pause(), which also rejects a pending play() promise,
\* and setIsPlaying(false)
stopAudio(s) ==
    [s EXCEPT !.audio = IF AudioMounted(s) THEN [@ EXCEPT !.paused = TRUE] ELSE @,
              !.playPending = IF AudioMounted(s) THEN FALSE ELSE @,
              !.isPlaying = FALSE]

\* finalizeQuiz as seen by a closure that holds score = clScore and
\* basePoints = clBase
finalizeQuiz(s, clScore, clBase) ==
    LET finalPoints == IF Configurable(version) THEN MathRound(clScore) ELSE clScore
        t == stopAudio([s EXCEPT !.quizOver = TRUE])
    IN  [t EXCEPT !.sessionScore = @ + finalPoints,
                  !.finalMessage = PerformanceMessage(finalPoints, clBase)]

-----------------------------------------------------------------------------
(* Loading a round *)

\* a load that leaves the readiness and the messages of the round before
LoadKeepingRound(s, sp, song, startT) ==
    IF version = "beta" /\ s.songs = {} THEN s
    ELSE IF Configurable(version) /\ sp >= s.numberOfSongs
    THEN [s EXCEPT !.quizOver = TRUE, !.finalMessage = AllPlayedMessage]
    ELSE LET bp == IF Configurable(version)
                   THEN calculateBasePoints(s.timeLimit) ELSE FixedBasePoints
         IN  [s EXCEPT !.timeElapsed = 0,
                       !.isPlaying = FALSE,
                       !.quizOver = FALSE,
                       !.audioStartTime = startT,
                       !.basePoints = bp,
                       !.score = bp * ScoreScale,
                       !.currentSong = song,
                       !.roundsLoaded = @ + 1,
                       !.wrongGuesses = 0,
                       !.frozenTotal = @ + (IF RoundEnded(s) THEN FinalScoreShown(s) ELSE 0)]

\* loadNewSong as seen by a closure that holds songsPlayed = sp; song and
\* startT are the two Math.random() draws
loadNewSong(s, sp, song, startT) ==
    IF version = "beta" /\ s.songs = {} THEN s
    ELSE IF Configurable(version) /\ sp >= s.numberOfSongs
    THEN [s EXCEPT !.quizOver = TRUE, !.finalMessage = AllPlayedMessage]
    ELSE LET bp == IF Configurable(version)
                   THEN calculateBasePoints(s.timeLimit) ELSE FixedBasePoints
         IN  [s EXCEPT !.timeElapsed = 0,
                       !.isPlaying = FALSE,
                       !.quizOver = FALSE,
                       !.selectedAnswer = NoAnswer,
                       !.feedbackMessage = "",
                       !.finalMessage = "",
                       !.metadataLoaded = FALSE,
                       !.audioStartTime = startT,
                       !.basePoints = bp,
                       !.score = bp * ScoreScale,
                       !.currentSong = song,
                       !.roundsLoaded = @ + 1,
                       !.wrongGuesses = 0,
                       !.frozenTotal = @ + (IF RoundEnded(s) THEN FinalScoreShown(s) ELSE 0)]

-----------------------------------------------------------------------------
(* Answer set *)

\* [arr[i], arr[j]] = [arr[j], arr[i]], the positions counted from 1
Swap(arr, p, q) == [arr EXCEPT ![p] = arr[q], ![q] = arr[p]]

\* the loop of shuffleArray from index i down to 1; js[i] is the value of
\* Math.floor(Math.random() * (i + 1)) in the pass for i
RECURSIVE ShuffleFrom(_, _, _)
ShuffleFrom(arr, i, js) ==
    IF i > 0 THEN ShuffleFrom(Swap(arr, i + 1, js[i] + 1), i - 1, js) ELSE arr

\* the values Math.floor(Math.random() * (i + 1)) can take in the passes
\* i = n - 1 .. 1 of one call
DrawSeqs(n) == {js \in [1..(n - 1) -> 0..(n - 1)] : \A i \in DOMAIN js : js[i] <= i}

\* a shuffle that works on the array it is given
ShuffleInPlace(array, js) ==
    LET arr == ShuffleFrom(array, Len(array) - 1, js)
    IN  [array |-> arr, arr |-> arr]

\* shuffleArray: the loop runs on the copy [...array]; array is the caller's
\* array after the call, arr the array returned
shuffleArray(array, js) ==
    [array |-> array, arr |-> ShuffleFrom(array, Len(array) - 1, js)]

\* the orders shuffleArray may leave the names of S in
Orders(S) ==
    {o \in [1..Cardinality(S) -> S] : \A i, j \in DOMAIN o : i # j => o[i] # o[j]}

\* shuffled.slice(0, 3): the names of the first three performers of C in the
\* order, as a bag (an array up to the order of its elements)
FirstThree(C, order) ==
    LET picked == {order[i] : i \in {k \in DOMAIN order :
                      order[k] \in C /\ Cardinality({j \in 1..k : order[j] \in C}) <= 3}}
    IN  [n \in {r.artist : r \in picked} |-> Cardinality({r \in picked : r.artist = n})]

\* uniform mode: every performer whose lower-cased name differs
getDistractors(correctArtist, allArtists, order) ==
    FirstThree({b \in allArtists : toLowerCase(b.artist) # toLowerCase(correctArtist)},
               order)

\* three of the other orchestras, whatever their attributes
AnyThreeOthers(correctName, allOrchs, order) ==
    FirstThree({o \in allOrchs : o.artist # correctName}, order)

\* attribute-affinity mode of the orchestra version
getDistractorsByAttributes(correctName, allOrchs, order) ==
    LET correctAttrs == UNION {o.attributes : o \in {p \in allOrchs : p.artist = correctName}}
        sharing == {o \in allOrchs : o.artist # correctName /\ o.attributes \cap correctAttrs # {}}
        fallback == {o \in allOrchs : o.artist # correctName}
        candidates == IF Cardinality(sharing) < 3 THEN sharing \cup fallback ELSE sharing
    IN  FirstThree(candidates, order)

\* the correct answer the answer-set effect derives from the track
CorrectOf(song) ==
    IF version \in {"poc", "retry", "feedback"} THEN song.ArtistMaster
    ELSE IF trim(FieldOrEmpty(song.ArtistMaster)) = "" THEN "Unknown"
    ELSE IF version = "config" THEN song.ArtistMaster
    ELSE trim(song.ArtistMaster)

\* the iterations whose catalog is orchestras.json
Orchestras(v) == v \in {"poc", "retry"}

\* the effect throws a TypeError: the orchestra versions read .name of the
\* catalog entry they did not find, the feedback version lower-cases a field
\* that is not there
AnswerSetThrows(s) ==
    /\ s.currentSong # NoSong
    /\ \/ Orchestras(version)
          /\ \A o \in s.artists : o.artist # s.currentSong.ArtistMaster
       \/ version = "feedback"
          /\ s.artists # {} /\ s.currentSong.ArtistMaster = Missing

\* the effect on [currentSong, artists]
AnswerSetEffect(s, order) ==
    IF s.currentSong # NoSong /\ (Orchestras(version) \/ s.artists # {})
    THEN LET c == CorrectOf(s.currentSong)
             d == IF Orchestras(version)
                  THEN getDistractorsByAttributes(c, s.artists, order)
                  ELSE getDistractors(c, s.artists, order)
         IN  \* the first iteration keeps no correctAnswer
             [correctAnswer |-> IF version = "poc" THEN s.correctAnswer ELSE c,
              answers |-> SetToBag({c}) (+) d]
    ELSE [correctAnswer |-> s.correctAnswer, answers |-> s.answers]

-----------------------------------------------------------------------------
(* Effects and rendering *)

\* the values the effects of this version depend on
DepsOf(s) ==
    [ songs |-> s.songs, artists |-> s.artists, currentSong |-> s.currentSong,
      isPlaying |-> s.isPlaying, quizOver |-> s.quizOver,
      showConfigModal |-> s.showConfigModal,
      basePoints |-> s.basePoints, timeLimit |-> s.timeLimit,
      \* beta only: loadNewSong and finalizeQuiz are dependencies, and change
      \* with numberOfSongs, songsPlayed and score
      numberOfSongs |-> IF version = "beta" THEN s.numberOfSongs ELSE 0,
      songsPlayed |-> IF version = "beta" THEN s.songsPlayed ELSE 0,
      score |-> IF version = "beta" THEN s.score ELSE 0 ]

\* a render is due whose effects have not run
Pending(s) == ~s.unmounted /\ DepsOf(s) # s.rendered

LoadDepsChanged(d, n) ==
    \/ d.songs # n.songs
    \/ d.artists # n.artists
    \/ d.showConfigModal # n.showConfigModal
    \/ d.numberOfSongs # n.numberOfSongs
    \/ d.songsPlayed # n.songsPlayed
    \/ version = "beta" /\ d.timeLimit # n.timeLimit

AnswerDepsChanged(d, n) == d.currentSong # n.currentSong \/ d.artists # n.artists

TickDepsChanged(d, n) ==
    \/ d.isPlaying # n.isPlaying
    \/ version # "poc" /\ d.quizOver # n.quizOver
    \/ d.basePoints # n.basePoints
    \/ d.timeLimit # n.timeLimit
    \/ d.score # n.score

clearIntervals(s) ==
    [s EXCEPT !.scoreTimers = IF s.scoreIntervalRef THEN @ - 1 ELSE @,
              !.scoreIntervalRef = FALSE,
              !.timeTimers = IF s.timerIntervalRef THEN @ - 1 ELSE @,
              !.timerIntervalRef = FALSE,
              !.timeDue = FALSE,
              !.tickClosure = NoClosure]

\* a tick effect without the cleanup of its previous run
TickWithoutCleanup(s, v) ==
    IF v.isPlaying /\ (version = "poc" \/ ~v.quizOver)
    THEN [s EXCEPT !.scoreIntervalRef = TRUE,
                   !.scoreTimers = @ + 1,
                   !.timerIntervalRef = TRUE,
                   !.timeTimers = @ + 1,
                   !.tickClosure = [score |-> v.score, basePoints |-> v.basePoints,
                                    timeLimit |-> v.timeLimit]]
    ELSE clearIntervals(s)

\* the tick effect of a render with the values v, on the timers of s: the
\* cleanup of the previous run, then the body
TickEffect(s, v) ==
    LET c == clearIntervals(s)
    IN  IF v.isPlaying /\ (version = "poc" \/ ~v.quizOver)
        THEN [c EXCEPT !.scoreIntervalRef = TRUE,
                       !.scoreTimers = @ + 1,
                       !.timerIntervalRef = TRUE,
                       !.timeTimers = @ + 1,
                       !.tickClosure = [score |-> v.score, basePoints |-> v.basePoints,
                                        timeLimit |-> v.timeLimit]]
        ELSE clearIntervals(c)

\* a load effect that does not wait for the dialog to close
LoadWhileConfiguring(s, song, startT) ==
    IF s.songs # {} /\ s.artists # {} /\ song \in s.songs
    THEN loadNewSong(s, s.songsPlayed, song, startT)
    ELSE s

\* the load effect: loadNewSong() once the data is there (and, in the
\* configurable versions, the dialog is closed)
LoadEffect(s, song, startT) ==
    IF s.songs # {} /\ s.artists # {} /\ ~s.showConfigModal /\ song \in s.songs
    THEN loadNewSong(s, s.songsPlayed, song, startT)
    ELSE s

\* the <audio src={currentSong.AudioUrl}> element after the render of s: a
\* new src starts a load, which ends playback
CommitAudio(s) ==
    IF AudioMounted(s) /\ s.audio.src # s.currentSong.AudioUrl
    THEN [s EXCEPT !.audio = [src |-> s.currentSong.AudioUrl, paused |-> TRUE,
                              currentTime |-> 0, loading |-> TRUE],
                   !.playPending = FALSE]
    ELSE s

\* an error thrown by an effect, with no error boundary: React unmounts the
\* component, the cleanup of the tick effect runs, the <audio> element is gone
Unmount(s) ==
    [clearIntervals(s) EXCEPT !.unmounted = TRUE, !.audio = NoAudio, !.playPending = FALSE]

\* one render of the state s and the effects of that render; rnd holds the
\* random draws of the effects
Render(s, rnd) ==
    LET d == s.rendered
        n == DepsOf(s)
        s0 == CommitAudio(s)
        s1 == IF LoadDepsChanged(d, n) THEN LoadEffect(s0, rnd.song, rnd.startT) ELSE s0
        a  == IF AnswerDepsChanged(d, n)
              THEN AnswerSetEffect(s, rnd.order)
              ELSE [correctAnswer |-> s.correctAnswer, answers |-> s.answers]
        s2 == [s1 EXCEPT !.correctAnswer = a.correctAnswer, !.answers = a.answers]
        s3 == IF TickDepsChanged(d, n) THEN TickEffect(s2, s) ELSE s2
    IN  IF AnswerDepsChanged(d, n) /\ AnswerSetThrows(s)
        THEN Unmount([s EXCEPT !.rendered = n, !.late = 0])
        ELSE [s3 EXCEPT !.rendered = n, !.late = 0]

\* renders until no effect changes the state any more
RECURSIVE Settle(_, _)
Settle(s, rnd) ==
    LET r == Render(s, rnd)
    IN  IF Pending(r) \/ CommitAudio(r) # r THEN Settle(r, rnd) ELSE r

\* the draws over the tracks sd and the performers ad: a track, a start
\* offset and the order the shuffle leaves the performers in
DrawsOf(sd, ad) ==
    [song : IF sd = {} THEN {NoSong} ELSE sd, startT : StartOffsets, order : Orders(ad)]

Draws == DrawsOf(SongData, ArtistData)

\* a draw for the renders in which no effect draws anything
AnyDraw == CHOOSE r \in Draws : TRUE

\* the draws that differ in the shuffle only
OrderDraws(s) == [song : {AnyDraw.song}, startT : {AnyDraw.startT}, order : Orders(s.artists)]

\* the draws the effects of the next render of s can consume
DrawsFor(s) ==
    IF LoadDepsChanged(s.rendered, DepsOf(s)) THEN DrawsOf(s.songs, s.artists)
    ELSE IF AnswerDepsChanged(s.rendered, DepsOf(s)) THEN OrderDraws(s)
    ELSE {AnyDraw}

-----------------------------------------------------------------------------
(* Initial state: the component after mount *)

InitialState ==
    [ songs |-> {}, artists |-> {}, currentSong |-> NoSong, answers |-> EmptyBag,
      selectedAnswer |-> NoAnswer,
      basePoints |-> FixedBasePoints, score |-> 100 * ScoreScale,
      timeElapsed |-> 0, isPlaying |-> FALSE, quizOver |-> FALSE,
      audioStartTime |-> 0, sessionScore |-> 0, correctAnswer |-> "",
      feedbackMessage |-> "", finalMessage |-> "", metadataLoaded |-> FALSE,
      showConfigModal |-> Configurable(version),
      timeLimit |-> IF Configurable(version) THEN DefaultTimeLimit ELSE FixedTimeLimit,
      numberOfSongs |-> IF Configurable(version) THEN DefaultNumberOfSongs ELSE 0,
      songsPlayed |-> 0,
      scoreIntervalRef |-> FALSE, timerIntervalRef |-> FALSE,
      scoreTimers |-> 0, timeTimers |-> 0, tickClosure |-> NoClosure,
      timeDue |-> FALSE, polls |-> 0,
      audio |-> NoAudio, playPending |-> FALSE,
      rendered |-> <<>>, late |-> 0, unmounted |-> FALSE, fetched |-> FALSE,
      roundsLoaded |-> 0, wrongGuesses |-> 0, frozenTotal |-> 0 ]

\* no call of shuffleArray taken on its own
NoShuffle(given) ==
    [given |-> given, array |-> given, indices |-> <<>>, arr |-> <<>>, returned |-> FALSE]

\* the state of the component after mount, in the iteration `version`
AfterMount ==
    /\ songs = {} /\ artists = {} /\ currentSong = NoSong /\ answers = EmptyBag
    /\ selectedAnswer = NoAnswer
    /\ basePoints = InitialState.basePoints /\ score = InitialState.score
    /\ timeElapsed = 0 /\ isPlaying = FALSE /\ quizOver = FALSE
    /\ audioStartTime = 0 /\ sessionScore = 0 /\ correctAnswer = ""
    /\ feedbackMessage = "" /\ finalMessage = "" /\ metadataLoaded = FALSE
    /\ showConfigModal = InitialState.showConfigModal
    /\ timeLimit = InitialState.timeLimit
    /\ numberOfSongs = InitialState.numberOfSongs
    /\ songsPlayed = 0
    /\ scoreIntervalRef = FALSE /\ timerIntervalRef = FALSE
    /\ scoreTimers = 0 /\ timeTimers = 0 /\ tickClosure = NoClosure
    /\ timeDue = FALSE /\ polls = 0
    /\ audio = NoAudio /\ playPending = FALSE
    /\ rendered = DepsOf(InitialState) /\ late = 0 /\ unmounted = FALSE /\ fetched = FALSE
    /\ roundsLoaded = 0 /\ wrongGuesses = 0 /\ frozenTotal = 0

QuizInit == version \in Versions /\ AfterMount

Init == QuizInit /\ shuffleRun = NoShuffle(<<>>)

\* the first iteration after mount
PocInit ==
    /\ version = "poc" /\ AfterMount
    /\ shuffleRun = NoShuffle(<<>>)

-----------------------------------------------------------------------------
(* Handlers *)

\* the artists and songs the fetch effect stores
\* of the fetched performers ad and tracks sd, what the fetch effect stores
ValidArtistsOf(ad) ==
    IF version = "beta"
    THEN {a \in ad : a.level = "1" /\ a.active = "true"}
    ELSE ad

ValidSongsOf(sd, ad) ==
    IF version = "beta"
    THEN {g \in sd :
            /\ toLowerCase(trim(FieldOrEmpty(g.ArtistMaster))) # ""
            /\ \E va \in ValidArtistsOf(ad) :
                  toLowerCase(va.artist) = toLowerCase(trim(FieldOrEmpty(g.ArtistMaster)))}
    ELSE sd

ValidArtists == ValidArtistsOf(ArtistData)

ValidSongs == ValidSongsOf(SongData, ArtistData)

startAudioHandler(s) ==
    IF s.currentSong = NoSong \/ ~AudioMounted(s) THEN s
    ELSE IF s.metadataLoaded /\ version = "poc"
    THEN \* play() with no then: setIsPlaying(true) at once
         [s EXCEPT !.audio = [@ EXCEPT !.currentTime = s.audioStartTime, !.paused = FALSE],
                   !.isPlaying = TRUE]
    ELSE IF s.metadataLoaded
    THEN [s EXCEPT !.audio = [@ EXCEPT !.currentTime = s.audioStartTime, !.paused = FALSE],
                   !.playPending = TRUE]
    ELSE [s EXCEPT !.polls = @ + 1]

\* one run of the checkInterval callback of startAudio; seen is the
\* metadataLoaded of the render whose startAudio registered the interval
pollHandler(s, seen) ==
    IF seen /\ AudioMounted(s) /\ version = "poc"
    THEN [s EXCEPT !.polls = @ - 1,
                   !.audio = [@ EXCEPT !.currentTime = s.audioStartTime, !.paused = FALSE],
                   !.isPlaying = TRUE]
    ELSE IF seen /\ AudioMounted(s)
    THEN [s EXCEPT !.polls = @ - 1,
                   !.audio = [@ EXCEPT !.currentTime = s.audioStartTime, !.paused = FALSE],
                   !.playPending = TRUE]
    ELSE s

\* an answer handler that lets the round go on after a wrong answer
AnswerKeepsRound(s, answer) ==
    IF s.quizOver THEN s
    ELSE IF Matches(answer, s.currentSong.ArtistMaster)
    THEN stopAudio([s EXCEPT !.selectedAnswer = answer,
                             !.sessionScore = @ + s.score,
                             !.quizOver = TRUE])
    ELSE [s EXCEPT !.score = @ - 10 * ScoreScale,
                   !.selectedAnswer = answer,
                   !.wrongGuesses = @ + 1]

\* handleAnswerSelect of the first iteration: any answer ends the round
firstAnswerHandler(s, answer) ==
    IF s.selectedAnswer # NoAnswer THEN s
    ELSE LET wrong == ~Matches(answer, s.currentSong.ArtistMaster)
             finalScore == IF wrong THEN s.score - 10 * ScoreScale ELSE s.score
         IN  stopAudio([s EXCEPT !.selectedAnswer = answer,
                                 !.score = finalScore,
                                 !.sessionScore = @ + finalScore,
                                 !.quizOver = TRUE,
                                 !.wrongGuesses = IF wrong THEN @ + 1 ELSE @])

\* an answer handler that takes the penalty of a wrong answer from the
\* session score as well
WrongGuessCharged(s, answer) ==
    IF version = "poc" THEN firstAnswerHandler(s, answer)
    ELSE IF s.quizOver THEN s
    ELSE IF Matches(answer, s.correctAnswer)
    THEN finalizeQuiz([s EXCEPT !.selectedAnswer = answer,
                                !.feedbackMessage = IF version = "retry" THEN @ ELSE "Correct!"],
                      s.score, s.basePoints)
    ELSE [s EXCEPT !.score = ScoreAfterWrong(@, s.basePoints),
                   !.sessionScore = @ - (s.score - ScoreAfterWrong(s.score, s.basePoints)),
                   !.selectedAnswer = answer,
                   !.feedbackMessage = WrongFeedback(s.basePoints),
                   !.wrongGuesses = @ + 1]

answerSelectHandler(s, answer) ==
    IF version = "poc" THEN firstAnswerHandler(s, answer)
    ELSE IF s.quizOver THEN s
    ELSE IF Matches(answer, s.correctAnswer)
    THEN finalizeQuiz([s EXCEPT !.selectedAnswer = answer,
                                !.feedbackMessage = IF version = "retry" THEN @ ELSE "Correct!"],
                      s.score, s.basePoints)
    ELSE [s EXCEPT !.score = ScoreAfterWrong(@, s.basePoints),
                   !.selectedAnswer = answer,
                   !.feedbackMessage = WrongFeedback(s.basePoints),
                   !.wrongGuesses = @ + 1]

nextSongHandler(s, song, startT) ==
    IF Configurable(version)
    THEN loadNewSong([s EXCEPT !.songsPlayed = @ + 1], s.songsPlayed, song, startT)
    ELSE loadNewSong(s, 0, song, startT)

-----------------------------------------------------------------------------
(* Actions *)

\* the two fetches resolve: setSongs, setArtists
FetchDataOf(sd, ad) ==
    /\ ~fetched
    /\ Becomes([Cur EXCEPT !.songs = ValidSongsOf(sd, ad), !.artists = ValidArtistsOf(ad),
                           !.fetched = TRUE])

FetchData == FetchDataOf(SongData, ArtistData)

\* onChange of the "Time Limit (sec)" field
EditTimeLimit ==
    /\ Configurable(version) /\ showConfigModal
    /\ \E txt \in TimeLimitTexts :
          Becomes(Settle([Cur EXCEPT !.timeLimit = OrElse(parseInt(txt), 10)], AnyDraw))

\* onChange of the "Number of Songs" field
EditNumberOfSongs ==
    /\ Configurable(version) /\ showConfigModal
    /\ \E txt \in SongCountTexts :
          Becomes(Settle([Cur EXCEPT !.numberOfSongs = OrElse(parseInt(txt), 1)], AnyDraw))

\* the Start button of the configuration dialog
handleStartConfig ==
    /\ Configurable(version) /\ showConfigModal
    /\ LET h == [Cur EXCEPT !.showConfigModal = FALSE]
       IN  \E rnd \in DrawsFor(h) : Becomes(Settle(h, rnd))

\* the loadedmetadata event of the <audio> element
handleMetadataLoaded ==
    /\ AudioMounted(Cur) /\ audio.loading
    /\ Becomes([Cur EXCEPT !.metadataLoaded = TRUE,
                           !.audio = [@ EXCEPT !.loading = FALSE,
                                               !.currentTime = IF Configurable(version)
                                                               THEN audioStartTime ELSE @]])

\* the Play Song button
startAudio ==
    /\ AudioMounted(Cur) /\ ~isPlaying /\ ~quizOver
    /\ Becomes(Settle(startAudioHandler(Cur), AnyDraw))

\* the promise of play() is fulfilled: setIsPlaying(true)
PlayResolved ==
    /\ playPending
    /\ Becomes([Cur EXCEPT !.isPlaying = TRUE, !.playPending = FALSE])

\* a checkInterval of startAudio fires: it was registered by a render in
\* which metadataLoaded was false, and that is the value its closure keeps
PollTick ==
    /\ polls > 0
    /\ Becomes(pollHandler(Cur, FALSE))

\* the score interval fires
ScoreTick ==
    /\ scoreTimers > 0 /\ ~timeDue
    /\ Becomes([Cur EXCEPT !.score = ScoreAfterTick(@, tickClosure),
                           !.timeDue = timeTimers > 0,
                           !.late = IF Pending(Cur) THEN @ + 1 ELSE @])

\* the timer interval fires
TimeTick ==
    /\ timeTimers > 0 /\ timeDue
    /\ LET t == [Cur EXCEPT !.timeElapsed = @ + 1, !.timeDue = FALSE]
       IN  Becomes(IF ~ReachesLimit(t.timeElapsed, tickClosure.timeLimit) THEN t
                   ELSE IF version = "poc" THEN stopAudio(t)
                   ELSE finalizeQuiz(t, tickClosure.score, tickClosure.basePoints))

\* React renders the updates of timer, promise and media callbacks and runs
\* the effects of that render
ReactFlush ==
    /\ Pending(Cur) /\ ~timeDue
    /\ \E rnd \in DrawsFor(Cur) : Becomes(Settle(Cur, rnd))

\* an answer button
handleAnswerSelect(answer) ==
    /\ AudioMounted(Cur) /\ ~quizOver /\ answer \in BagToSet(answers)
    /\ Becomes(Settle(answerSelectHandler(Cur, answer), AnyDraw))

\* the condition under which the Next Song button is rendered
NextSongShown(s) ==
    s.quizOver /\ (Configurable(version) => s.songsPlayed < s.numberOfSongs)

\* the Next Song button
handleNextSong ==
    /\ AudioMounted(Cur) /\ NextSongShown(Cur)
    /\ \E song \in songs, startT \in StartOffsets :
          LET h == nextSongHandler(Cur, song, startT)
          IN  \E rnd \in DrawsFor(h) : Becomes(Settle(h, rnd))

-----------------------------------------------------------------------------
(* Specifications *)

GuessWithinBound(answer) ==
    handleAnswerSelect(answer) /\ (Matches(answer, correctAnswer) \/ wrongGuesses < MaxWrong)

PeriodWithinBound == ScoreTick /\ (Pending(Cur) => late < MaxLate)

PlayWithinBound == startAudio /\ (metadataLoaded \/ polls < MaxPolls)

\* a session: all rounds, the first MaxTicks periods of each
Next ==
    \/ FetchData
    \/ EditTimeLimit
    \/ EditNumberOfSongs
    \/ handleStartConfig
    \/ handleMetadataLoaded
    \/ PlayWithinBound
    \/ PlayResolved
    \/ PollTick
    \/ PeriodWithinBound /\ timeElapsed < MaxTicks
    \/ TimeTick
    \/ ReactFlush
    \/ \E answer \in BagToSet(answers) : GuessWithinBound(answer)
    \/ handleNextSong /\ roundsLoaded < MaxRounds

Spec == Init /\ [][Next]_vars

\* the draw RoundSpec follows: the track and the start offset have no part in
\* the timing of a round
RoundDraw(s) ==
    s.currentSong # NoSong =>
        (s.currentSong = AnyDraw.song /\ s.audioStartTime = AnyDraw.startT)

\* one round of a session of the default length, played to its end; Play is
\* pressed once the track is ready
RoundSteps ==
    \/ FetchData
    \/ EditTimeLimit
    \/ handleStartConfig
    \/ handleMetadataLoaded
    \/ startAudio /\ metadataLoaded
    \/ PlayResolved
    \/ PeriodWithinBound
    \/ TimeTick
    \/ ReactFlush
    \/ \E answer \in BagToSet(answers) : GuessWithinBound(answer)

RoundNext == RoundSteps /\ RoundDraw(Cur)'

\* the render React has scheduled is not postponed forever: this is weak
\* fairness of ReactFlush, written with its enabling condition
FlushFairness == []<>~(Pending(Cur) /\ ~timeDue)

\* the browser fires due timers and React runs its pending render
RoundSpec ==
    /\ Init /\ [][RoundNext]_vars
    /\ WF_vars(PeriodWithinBound) /\ WF_vars(TimeTick) /\ FlushFairness

\* one round in which Play may be pressed before the track is ready: the
\* browser delivers loadedmetadata, settles the promise of play() and fires
\* the timers
PlayNext == (RoundSteps \/ PlayWithinBound \/ PollTick) /\ RoundDraw(Cur)'

PlaySpec ==
    /\ Init /\ [][PlayNext]_vars
    /\ WF_vars(handleMetadataLoaded) /\ WF_vars(PlayResolved) /\ WF_vars(PollTick)
    /\ WF_vars(PeriodWithinBound) /\ WF_vars(TimeTick) /\ FlushFairness

\* one round of the first iteration, past its 10 seconds
PocNext ==
    /\ \/ FetchData
       \/ handleMetadataLoaded
       \/ startAudio /\ metadataLoaded
       \/ PeriodWithinBound /\ timeElapsed < MaxPocTicks
       \/ TimeTick
       \/ ReactFlush
       \/ \E answer \in BagToSet(answers) : handleAnswerSelect(answer)
    /\ RoundDraw(Cur)'

PocSpec == PocInit /\ [][PocNext]_vars

\* one round of the two iterations with the fixed limit and the flat penalty,
\* with up to MaxRetries wrong guesses
RetryInit == Init /\ ~Configurable(version)

RetryGuess(answer) ==
    handleAnswerSelect(answer) /\ (Matches(answer, correctAnswer) \/ wrongGuesses < MaxRetries)

RetryNext ==
    /\ \/ FetchData
       \/ handleMetadataLoaded
       \/ startAudio /\ metadataLoaded
       \/ PlayResolved
       \/ PeriodWithinBound
       \/ TimeTick
       \/ ReactFlush
       \/ \E answer \in BagToSet(answers) : RetryGuess(answer)
    /\ RoundDraw(Cur)'

RetrySpec == RetryInit /\ [][RetryNext]_vars

\* The answer set over the contents the two files can have: the fetch of any
\* of the data sets, the rounds loaded from it, and the guesses.
AnswerNext ==
    \/ \E ds \in DataSets : FetchDataOf(ds.songs, ds.artists)
    \/ handleStartConfig
    \/ ReactFlush
    \/ handleMetadataLoaded
    \/ startAudio /\ metadataLoaded
    \/ PlayResolved
    \/ \E answer \in BagToSet(answers) : GuessWithinBound(answer)

AnswerSpec == Init /\ [][AnswerNext]_vars

\* shuffleArray on its own: an array of up to MaxShuffle distinct names, and
\* one call with any values of Math.random()
ShuffleNames == {"Canaro", "Di Sarli", "Troilo", "Biagi"}
ShuffleInputs ==
    {a \in UNION {[1..n -> ShuffleNames] : n \in 0..MaxShuffle} :
        \A p, q \in DOMAIN a : p # q => a[p] # a[q]}

ShuffleInit == QuizInit /\ \E a \in ShuffleInputs : shuffleRun = NoShuffle(a)

shuffleArrayCall ==
    /\ ~shuffleRun.returned
    /\ \E js \in DrawSeqs(Len(shuffleRun.array)) :
          LET r == shuffleArray(shuffleRun.array, js)
          IN  shuffleRun' = [given |-> shuffleRun.given, array |-> r.array,
                             indices |-> js, arr |-> r.arr, returned |-> TRUE]
    /\ UNCHANGED quizVars

ShuffleSpec == ShuffleInit /\ [][shuffleArrayCall]_vars

-----------------------------------------------------------------------------
(* Properties *)

\* the round in progress
Playing == isPlaying /\ ~quizOver

\* a step that loads a round
LoadsRound == roundsLoaded' > roundsLoaded

\* C1: calculateBasePoints gives 100 at a limit of 10, 20 more for each second
\* below 10 and 10 less for each second above 10, and every step that loads a
\* round leaves basePoints at that value for the time limit in force and the
\* score equal to basePoints.
C1_BasePointsFormula ==
    [][ /\ \A t \in TimeLimits :
              calculateBasePoints(t) = 100 + 20 * Max(10 - t, 0) - 10 * Max(t - 10, 0)
        /\ LoadsRound =>
              /\ basePoints' = 100 + 20 * Max(10 - timeLimit', 0) - 10 * Max(timeLimit' - 10, 0)
              /\ score' = basePoints' * ScoreScale ]_vars

\* a round loaded with a one-second limit: 280 points, nothing elapsed
C1_Witness ==
    /\ version = "config" /\ roundsLoaded = 1 /\ currentSong # NoSong
    /\ timeLimit = 1 /\ basePoints = 280 /\ score = 280 * ScoreScale
    /\ timeElapsed = 0 /\ ~quizOver

\* C2: in the configurable versions the score of a loaded round is never
\* below 0 and never above basePoints.
C2_ScoreWithinBounds ==
    (Configurable(version) /\ currentSong # NoSong)
        => (0 <= score /\ score <= basePoints * ScoreScale)

\* C3: while a round is playing, no step other than the load of a round
\* increases the score.
C3_ScoreNonIncreasing ==
    [][ (Playing /\ ~LoadsRound) => score' <= score ]_vars

\* C4: once a played round is over, its score and its elapsed time keep their
\* values until a round is loaded (stated for the positive time limits).
C4_FrozenAfterEnd ==
    [][ (timeLimit > 0 /\ RoundEnded(Cur) /\ ~LoadsRound) =>
            (score' = score /\ timeElapsed' = timeElapsed) ]_vars

\* a guess made while the round is playing
WrongGuessStep ==
    Playing /\ \E a \in BagToSet(answers) : ~Matches(a, correctAnswer) /\ handleAnswerSelect(a)
CorrectGuessStep ==
    Playing /\ \E a \in BagToSet(answers) : Matches(a, correctAnswer) /\ handleAnswerSelect(a)

\* the time tick of a round that is playing
PlayingTimeTick == Playing /\ TimeTick

\* C5: in the configurable versions a wrong guess during play takes a
\* twentieth of basePoints off the score, with 0 as the floor, never raises it
\* when basePoints is not negative, and leaves the round playing: quizOver
\* false, isPlaying true, the audio not paused, both intervals registered.
C5_WrongGuessPenalty ==
    [][ (Configurable(version) /\ WrongGuessStep) =>
            /\ 20 * score' = Max(20 * score - basePoints * ScoreScale, 0)
            /\ basePoints >= 0 => score' <= score
            /\ ~quizOver' /\ isPlaying' /\ ~audio'.paused
            /\ scoreTimers' > 0 /\ timeTimers' > 0
            /\ timeElapsed' = timeElapsed ]_vars

\* default limit of 15 s, one period played, one wrong guess: 50 - 1/3 - 2.5
C5_Witness ==
    /\ version = "config" /\ Playing /\ wrongGuesses = 1
    /\ timeLimit = 15 /\ basePoints = 50 /\ timeElapsed = 1
    /\ 6 * score = (300 - 2 - 15) * ScoreScale
    /\ feedbackMessage = "Wrong answer! -3 points"
    /\ ~audio.paused /\ scoreTimers = 1 /\ timeTimers = 1

\* C6: a matching guess during play ends the round in the same step, and the
\* amount added to the session score, and the amount the performance message
\* is computed from, is the score the round has at that moment.
C6_CorrectGuessRecordsScore ==
    [][ CorrectGuessStep =>
            /\ quizOver'
            /\ sessionScore' = sessionScore + score
            /\ finalMessage' = PerformanceMessage(score, basePoints) ]_vars

\* C7: in the retry and the configurable versions, the time tick of a playing
\* round ends the round exactly when the elapsed time it computes reaches the
\* limit (quizOver true, isPlaying false, audio paused), and a playing round
\* is eventually over.
C7_TimeoutEndsRound ==
    /\ [][ (version # "feedback" /\ PlayingTimeTick) =>
              IF ReachesLimit(timeElapsed + 1, timeLimit)
              THEN quizOver' /\ ~isPlaying' /\ audio'.paused
              ELSE ~quizOver' /\ isPlaying' ]_vars
    /\ (version # "feedback" /\ Playing) ~> quizOver

\* the retry version timed out with no guess made: 10 s take 101 periods
C7_Witness ==
    /\ version = "retry" /\ quizOver /\ ~isPlaying /\ audio.paused
    /\ selectedAnswer = NoAnswer /\ timeElapsed = TicksToReach[FixedTimeLimit]

\* C8: at a timeout the amount added to the session score, and the amount the
\* performance message is computed from, is the score the round has at that
\* moment, exact or rounded (stated for the positive time limits).
C8_TimeoutRecordsLiveScore ==
    [][ (timeLimit > 0 /\ PlayingTimeTick /\ quizOver') =>
            /\ sessionScore' - sessionScore \in {score, MathRound(score)}
            /\ finalMessage' \in {PerformanceMessage(score, basePoints),
                                  PerformanceMessage(MathRound(score), basePoints)} ]_vars

\* C9: the session score is the sum of the final scores shown for the rounds
\* that are over, each counted once (stated for the positive time limits).
C9_SessionScoreIsSum ==
    timeLimit > 0 =>
        sessionScore = frozenTotal + (IF RoundEnded(Cur) THEN FinalScoreShown(Cur) ELSE 0)

\* C10: in the configurable versions a round can be played only while fewer
\* rounds than configured have been completed.
C10_AtMostNRounds ==
    (Configurable(version) /\ AudioMounted(Cur) /\ ~quizOver)
        => songsPlayed < numberOfSongs

\* a guess made while the round is loaded and not playing
GuessOutsidePlay ==
    ~Playing /\ \E a \in BagToSet(answers) : handleAnswerSelect(a)

\* C11: a guess made while the round is not playing, before the playback has
\* started or after the round is over, changes neither the score, the session
\* score, the phase, the selected answer nor the feedback.
C11_GuessOutsidePlayIgnored ==
    [][ GuessOutsidePlay =>
            UNCHANGED <<score, sessionScore, isPlaying, quizOver,
                        selectedAnswer, feedbackMessage>> ]_vars

\* C12: while a round is loaded and not over, no step replaces it: the track,
\* the start offset, the count of rounds played and the session score keep
\* their values, and the score and the elapsed time are not reset (the Next
\* Song button is rendered only once the round is over).
C12_NoAdvanceBeforeEnd ==
    [][ (AudioMounted(Cur) /\ ~quizOver) =>
            /\ UNCHANGED <<currentSong, audioStartTime, songsPlayed, roundsLoaded>>
            /\ ~quizOver' => sessionScore' = sessionScore
            /\ timeElapsed' >= timeElapsed
            /\ AudioMounted(Cur)' ]_vars

\* the second round of a session, playing, one period in
C12_Witness ==
    /\ version = "config" /\ roundsLoaded = 2 /\ songsPlayed = 1
    /\ Playing /\ timeElapsed = 1 /\ ~NextSongShown(Cur)

\* C20: in the configurable versions a round loaded with a time limit above
\* 10 seconds has base points that are not negative.
C20_BasePointsNonNegative ==
    (Configurable(version) /\ roundsLoaded > 0 /\ timeLimit > 10) => basePoints >= 0

\* the spellings of one name: they differ in case and surrounding blanks only
Spellings == { {"Canaro", " Canaro ", " canaro ", "CANARO"}, {"Di Sarli", "Di Sarli "} }
SameName(a, b) == a = b \/ \E c \in Spellings : {a, b} \subseteq c

\* C13: a guess is judged correct, and ends the round, exactly when it is the
\* correct answer up to case and surrounding blanks: "Canaro", " canaro " and
\* "CANARO" are all correct for "Canaro", "Di Sarli" is not.
C13_NormalisedComparison ==
    /\ [][ \A a \in BagToSet(answers) :
              handleAnswerSelect(a) =>
                  /\ selectedAnswer' = a
                  /\ quizOver' <=> SameName(a, correctAnswer) ]_vars
    /\ [][ \A a \in {"Canaro", " canaro ", "CANARO"} :
              (correctAnswer = "Canaro" /\ handleAnswerSelect(a)) =>
                  (quizOver' /\ sessionScore' > sessionScore) ]_vars

\* the button "CANARO" clicked in a round whose correct answer is "Canaro"
C13_Witness ==
    /\ correctAnswer = "Canaro" /\ selectedAnswer = "CANARO"
    /\ quizOver /\ wrongGuesses = 0 /\ sessionScore = 100 * ScoreScale

\* the catalog lists no performer under two spellings
CleanCatalog(ad) == \A a, b \in ad : SameName(a.artist, b.artist) => a = b

\* the names on the answer buttons of the round on screen
Offered == IF AudioMounted(Cur) THEN BagToSet(answers) ELSE {}

\* C14: the answer set of a round holds the correct answer exactly once and
\* no name twice, not even as two spellings of one name, so that exactly one
\* button is judged correct (stated for the catalogs that list every performer
\* under one spelling).
C14_OneCorrectButton ==
    (AudioMounted(Cur) /\ answers # EmptyBag /\ CleanCatalog(artists)) =>
        /\ \A n \in Offered : CopiesIn(n, answers) = 1
        /\ correctAnswer \in Offered
        /\ \A a, b \in Offered : SameName(a, b) => a = b
        /\ Cardinality({a \in Offered : Matches(a, correctAnswer)}) = 1

\* the distractors of the round on screen: the answer set less the correct answer
Distractors == answers (-) SetToBag({correctAnswer})

\* the performers of the catalog other than the correct one
OtherPerformers == {a \in artists : ~SameName(a.artist, correctAnswer)}

\* C15: the distractors of a round are min(3, k) names, k being the number of
\* performers of the catalog other than the correct one; none of them is the
\* correct performer and none occurs twice, so that the answer set has 4 names
\* when there are 3 other performers or more and 1 + k otherwise (stated for
\* the catalogs that list every performer under one spelling).
C15_DistractorContract ==
    (AudioMounted(Cur) /\ answers # EmptyBag /\ CleanCatalog(artists)) =>
        LET k == Cardinality(OtherPerformers)
            m == IF k < 3 THEN k ELSE 3
        IN  /\ BagCardinality(Distractors) = m
            /\ BagCardinality(answers) = 1 + m
            /\ \A n \in BagToSet(Distractors) :
                  /\ ~SameName(n, correctAnswer)
                  /\ CopiesIn(n, Distractors) = 1
                  /\ \E a \in artists : a.artist = n

\* C16: every name on an answer button, the correct answer included, is the
\* name of a performer of the catalog in use, whatever the performer field
\* of the track holds (a name counts as the performer's under any spelling).
C16_NothingFabricated ==
    \A n \in Offered : \E a \in artists : SameName(a.artist, n)

\* C17: when Play was pressed before the track was ready and the metadata has
\* arrived since, the round starts playing (or ends) with no further click.
C17_DeferredStartPlays ==
    (polls > 0 /\ metadataLoaded /\ AudioMounted(Cur) /\ ~quizOver)
        ~> (isPlaying \/ quizOver)

\* play() is called: the element leaves the paused state, or a promise of
\* play() appears
PlayCalled == (audio.paused /\ ~audio'.paused) \/ (~playPending /\ playPending')

\* C18: play() is called only by the Play button, only when the metadata of
\* the track on screen has arrived, and with the position set to the start
\* offset of the round.
C18_PlayOnlyWhenReady ==
    [][ PlayCalled =>
            /\ startAudio
            /\ metadataLoaded /\ ~audio.loading /\ audio.src = currentSong.AudioUrl
            /\ audio'.currentTime = audioStartTime
            /\ audio'.src = audio.src ]_vars

\* Play pressed once the metadata is there: position 89 s, promise pending
C18_Witness ==
    /\ metadataLoaded /\ audioStartTime = 89 /\ audio.currentTime = 89
    /\ ~audio.paused /\ playPending /\ ~isPlaying /\ ~quizOver

\* C19: every step that takes a round out of play pauses the audio, and the
\* audio of a round that is over, or of a round that is loaded and not
\* started, is paused.
C19_PausedOutsidePlay ==
    /\ [][ (Playing /\ ~Playing') => (audio'.paused /\ ~playPending') ]_vars
    /\ [](AudioMounted(Cur) =>
            /\ quizOver => (audio.paused /\ ~playPending)
            /\ (~isPlaying /\ ~playPending) => audio.paused)

\* a round that was playing, ended by the correct answer: audio paused
C19_Witness ==
    /\ quizOver /\ ~isPlaying /\ timeElapsed >= 1 /\ selectedAnswer = correctAnswer
    /\ audio.paused /\ audio.src = currentSong.AudioUrl /\ ~audio.loading

\* C21: in the configurable versions, while a round plays with no wrong guess
\* and both intervals have fired equally often, the score after k periods is
\* basePoints - k * basePoints / (timeLimit * 10), and it is 0 exactly when
\* the elapsed time has reached the limit (stated for the positive limits).
C21_LinearDecay ==
    (Configurable(version) /\ Playing /\ wrongGuesses = 0 /\ ~timeDue /\ timeLimit > 0) =>
        /\ 10 * timeLimit * score = basePoints * ScoreScale * (10 * timeLimit - timeElapsed)
        /\ score = 0 <=> ReachesLimit(timeElapsed, timeLimit)

\* C22: the amount a finished round adds to the session score is the final
\* score of the round as it stands, unrounded (stated for the rounds of the
\* configurable versions that the correct answer ends).
C22_FullPrecisionTotal ==
    [][ (Configurable(version) /\ CorrectGuessStep) =>
            (quizOver' /\ sessionScore' - sessionScore = score') ]_vars

\* the four performance messages, best first, and the one the thresholds
\* 0.8, 0.5 and 0.2 of the base points b give the score s (times ScoreScale)
Messages == << "Excellent job!", "Great work!", "Not bad!", "Better luck next time." >>
MessageFor(s, b) ==
    IF 10 * s > 8 * b * ScoreScale THEN Messages[1]
    ELSE IF 10 * s > 5 * b * ScoreScale THEN Messages[2]
    ELSE IF 10 * s > 2 * b * ScoreScale THEN Messages[3]
    ELSE Messages[4]

\* C23: the performance message of a finished round is the one the thresholds
\* 0.8, 0.5 and 0.2 of the base points give the final score of the round as it
\* stands (stated for the rounds that the correct answer ends, in the versions
\* that show a message, with a positive time limit).
C23_MessageFromFinalScore ==
    [][ (version # "retry" /\ timeLimit > 0 /\ CorrectGuessStep) =>
            finalMessage' = MessageFor(score', basePoints') ]_vars

\* the fetch has resolved and has left no track or no performer
CatalogEmpty == fetched /\ (songs = {} \/ artists = {})

\* the page tells the user of a condition: a message, or the blank page of
\* an uncaught error
NoticeShown == feedbackMessage # "" \/ finalMessage # "" \/ unmounted

\* C24: with no track or no performer left after the fetch, no round is ever
\* loaded, nothing plays, no score is accumulated, and once the configuration
\* dialog is closed the page shows the condition.
C24_EmptyCatalogStops ==
    CatalogEmpty =>
        /\ roundsLoaded = 0 /\ currentSong = NoSong /\ answers = EmptyBag
        /\ ~isPlaying /\ ~quizOver /\ sessionScore = 0
        /\ ~showConfigModal => NoticeShown

\* C25: in a configurable session, once the configuration dialog is closed,
\* the count of rounds completed does not exceed the configured number.
C25_PlayedWithinConfigured ==
    (Configurable(version) /\ ~showConfigModal) => songsPlayed <= numberOfSongs

\* C26: once the configuration dialog is closed, the stored time limit is
\* positive and the stored number of rounds is at least 1.
C26_PositiveConfiguration ==
    (Configurable(version) /\ ~showConfigModal) => (timeLimit > 0 /\ numberOfSongs >= 1)

\* the track, the correct answer or the answer set of the round is replaced
RoundReplaced ==
    currentSong' # currentSong \/ correctAnswer' # correctAnswer \/ answers' # answers

\* C27: once a round has a track, the track, the correct answer and the
\* answer set are replaced only by the Next Song button, and the button
\* selects one track: no effect that runs again selects another.
C27_CorrectAnswerFixed ==
    [][ (currentSong # NoSong /\ RoundReplaced) =>
            (handleNextSong /\ roundsLoaded' = roundsLoaded + 1) ]_vars

\* the entry of the catalog for the correct answer, the other entries, and
\* those of them that share a tag with it
CorrectEntries == {o \in artists : o.artist = correctAnswer}
OtherEntries == artists \ CorrectEntries
SharingEntries ==
    {o \in OtherEntries : \E c \in CorrectEntries : o.attributes \cap c.attributes # {}}

\* C28: in the orchestra version, when 3 or more other performers share a tag
\* with the correct one, every distractor is one of them; in every case the
\* distractors are other performers of the catalog, none twice, and 3 of them
\* whenever there are 3 others.
C28_AffinityDistractors ==
    (version = "retry" /\ AudioMounted(Cur) /\ answers # EmptyBag /\ CleanCatalog(artists)) =>
        /\ Cardinality(SharingEntries) >= 3 =>
              \A n \in BagToSet(Distractors) : \E o \in SharingEntries : o.artist = n
        /\ \A n \in BagToSet(Distractors) :
              CopiesIn(n, Distractors) = 1 /\ \E o \in OtherEntries : o.artist = n
        /\ BagCardinality(Distractors) =
              IF Cardinality(OtherEntries) < 3 THEN Cardinality(OtherEntries) ELSE 3

\* the orchestra version with three performers sharing "classic" with Canaro:
\* they are the distractors, Di Sarli is not offered
C28_Witness ==
    /\ version = "retry" /\ AudioMounted(Cur) /\ artists = AffinityArtistData
    /\ correctAnswer = "Canaro" /\ Cardinality(SharingEntries) = 3
    /\ BagToSet(answers) = {"Canaro", "Troilo", "D'Arienzo", "Biagi"}

\* the arrangements of the elements of the array a
ArrangementsOf(a) ==
    {p \in [DOMAIN a -> {a[i] : i \in DOMAIN a}] : \A i, j \in DOMAIN a : i # j => p[i] # p[j]}

\* C29: shuffleArray returns an arrangement of the array it is given and
\* leaves that array as it was; different values of the random indices give
\* different arrangements, and every arrangement is given by some values, so
\* that the n! index sequences and the n! arrangements correspond one to one.
C29_ShuffleIsBijection ==
    shuffleRun.returned =>
        LET given == shuffleRun.given
            seqs == DrawSeqs(Len(given))
        IN  /\ shuffleRun.arr \in ArrangementsOf(given)
            /\ Len(shuffleRun.arr) = Len(given)
            /\ shuffleRun.array = given
            /\ \A js \in seqs :
                  shuffleArray(given, js).arr = shuffleRun.arr => js = shuffleRun.indices
            /\ \A p \in ArrangementsOf(given) : \E js \in seqs : shuffleArray(given, js).arr = p

\* four names, the last swapped with the third, the third with the second,
\* the second with the first
C29_Witness ==
    /\ shuffleRun.returned
    /\ shuffleRun.given = << "Canaro", "Di Sarli", "Troilo", "Biagi" >>
    /\ shuffleRun.indices = << 0, 1, 2 >>
    /\ shuffleRun.arr = << "Biagi", "Canaro", "Di Sarli", "Troilo" >>
    /\ shuffleRun.array = shuffleRun.given

RoundLoaded == roundsLoaded' > roundsLoaded

\* the step ends with the call of loadNewSong that finds all songs played
SessionClosed == quizOver' /\ finalMessage' = AllPlayedMessage

\* C31: a step that loads a round leaves the elapsed time at 0, the score at
\* the new basePoints, no selected answer, no feedback, not playing and not
\* ready, and leaves the session score, the catalog and the configuration as
\* they were; the round is open and has no final message, unless a further
\* call of loadNewSong in the same step finds all songs played.
C31_LoadResetsRound ==
    [][ RoundLoaded =>
            /\ timeElapsed' = 0
            /\ score' = basePoints' * ScoreScale
            /\ selectedAnswer' = NoAnswer /\ feedbackMessage' = ""
            /\ ~isPlaying' /\ ~metadataLoaded'
            /\ SessionClosed \/ (~quizOver' /\ finalMessage' = "")
            /\ sessionScore' = sessionScore
            /\ UNCHANGED << songs, artists, timeLimit, numberOfSongs >> ]_vars

\* the second round has been loaded after a round that ended with a positive
\* final score
C31_Witness ==
    /\ roundsLoaded = 2 /\ frozenTotal > 0 /\ sessionScore > 0
    /\ timeElapsed = 0 /\ score = basePoints * ScoreScale
    /\ selectedAnswer = NoAnswer /\ feedbackMessage = "" /\ finalMessage = ""
    /\ ~isPlaying /\ ~quizOver /\ ~metadataLoaded

\* the configuration dialog is open
Configuring == Configurable(version) /\ showConfigModal

\* no round exists: no track, no answer set, no interval, nothing played,
\* guessed or scored
NoRound ==
    /\ currentSong = NoSong /\ answers = EmptyBag /\ roundsLoaded = 0
    /\ scoreTimers = 0 /\ timeTimers = 0 /\ timeElapsed = 0 /\ ~isPlaying
    /\ selectedAnswer = NoAnswer /\ wrongGuesses = 0 /\ sessionScore = 0 /\ ~quizOver

\* C32: in the configurable versions no round exists while the configuration
\* dialog is open; only the Start button closes the dialog, the first round is
\* loaded in a step that leaves the dialog closed, and it takes its base
\* points from the time limit as confirmed, with the round count as
\* confirmed.
C32_NoRoundBeforeStart ==
    /\ [](Configuring => NoRound)
    /\ [][ /\ (showConfigModal /\ ~showConfigModal') => handleStartConfig
           /\ (Configurable(version) /\ RoundLoaded /\ roundsLoaded = 0) =>
                  /\ ~showConfigModal'
                  /\ handleStartConfig \/ (~showConfigModal /\ UNCHANGED songsPlayed)
                  /\ UNCHANGED << timeLimit, numberOfSongs >>
                  /\ basePoints' = calculateBasePoints(timeLimit)
                  /\ songsPlayed' < numberOfSongs ]_vars

\* the first round of a session confirmed with a time limit of 1 second and
\* one song
C32_Witness ==
    /\ Configurable(version) /\ ~showConfigModal /\ roundsLoaded = 1
    /\ timeLimit = 1 /\ numberOfSongs = 1 /\ basePoints = 280
    /\ currentSong # NoSong /\ answers # EmptyBag

\* a step in which a wrong answer was taken
WrongAnswerTaken == wrongGuesses' = wrongGuesses + 1

\* C33: in the iterations with the flat penalty, every wrong guess of a round
\* that is not over takes exactly 10 points from the score, whatever the score
\* and however many wrong guesses came before, and leaves the round open,
\* playback as it was and the session score untouched; the two intervals are
\* as they were unless the step runs a tick effect that was already due.
C33_FlatPenaltyEveryTime ==
    [][ (~Configurable(version) /\ WrongAnswerTaken) =>
            /\ ~quizOver
            /\ score' = score - 10 * ScoreScale
            /\ ~quizOver'
            /\ isPlaying' = isPlaying /\ audio' = audio
            /\ ~Pending(Cur) => (scoreTimers' = scoreTimers /\ timeTimers' = timeTimers)
            /\ sessionScore' = sessionScore ]_vars

\* the third wrong guess of a round, each on the same button, has taken the
\* score below zero while the track plays on
C33_Witness ==
    /\ ~Configurable(version) /\ wrongGuesses = 3 /\ Cardinality(BagToSet(answers)) = 2
    /\ score < 0 /\ score = (FixedBasePoints - 30) * ScoreScale - timeElapsed * ScoreScale
    /\ isPlaying /\ ~quizOver /\ ~audio.paused

\* a step in which the first answer of the round was taken
FirstAnswerStep == selectedAnswer = NoAnswer /\ selectedAnswer' # NoAnswer

\* C34: in the first iteration the first answer of a round ends it: the score
\* becomes the score at the click, less 10 if the answer is not the track's
\* orchestra, that value is added to the session score, playback stops; once
\* an answer is held, the answer, the score and the session score of the
\* round change no more.
C34_FirstAnswerEnds ==
    [][ /\ FirstAnswerStep =>
              /\ score' = IF SameName(selectedAnswer', currentSong.ArtistMaster)
                          THEN score ELSE score - 10 * ScoreScale
              /\ sessionScore' = sessionScore + score'
              /\ quizOver' /\ ~isPlaying' /\ audio'.paused
              /\ scoreTimers' = 0 /\ timeTimers' = 0
        /\ selectedAnswer # NoAnswer =>
              (quizOver /\ UNCHANGED << selectedAnswer, score, sessionScore >>) ]_vars

\* a wrong answer, given while the track played, has ended the round
C34_Witness ==
    /\ version = "poc" /\ quizOver /\ wrongGuesses = 1 /\ timeElapsed > 0
    /\ ~SameName(selectedAnswer, currentSong.ArtistMaster)
    /\ score = (FixedBasePoints - 10) * ScoreScale - timeElapsed * ScoreScale
    /\ sessionScore = score /\ ~isPlaying /\ audio.paused

\* C35: in the first iteration, once the elapsed time has reached 10 seconds
\* the round is over: quizOver is set, the track does not play, and the
\* elapsed time is the limit.
C35_TimeoutEndsRound ==
    (version = "poc" /\ ReachesLimit(timeElapsed, FixedTimeLimit)) =>
        /\ quizOver
        /\ ~isPlaying
        /\ timeElapsed = TicksToReach[FixedTimeLimit]

\* C36: every round that has been loaded becomes ready: as long as the
\* readiness flag of an open round is false, the media element is loading the
\* round's track and will signal loadedmetadata.
C36_LoadedRoundBecomesReady ==
    (AudioMounted(Cur) /\ ~quizOver /\ ~metadataLoaded) =>
        (audio.src = currentSong.AudioUrl /\ audio.loading)
P36a == roundsLoaded <= 1 => C36_LoadedRoundBecomesReady

\* C37: a round that is over is never playing, and a round that ends while a
\* play() promise is pending leaves no promise behind that could set
\* isPlaying afterwards.
C37_EndedNeverPlaying ==
    /\ [](quizOver => (~isPlaying /\ ~playPending))
    /\ [][ (playPending /\ ~quizOver /\ quizOver') => (~isPlaying' /\ audio'.paused) ]_vars

\* Play Song was pressed in a round of the orchestra iteration, which ended
\* before the first tick: the track is paused at its start offset and no
\* promise is pending
C37_Witness ==
    /\ version = "retry" /\ quizOver /\ ~isPlaying /\ ~playPending
    /\ audioStartTime > 0 /\ audio.currentTime = audioStartTime /\ audio.paused
    /\ timeElapsed = 0 /\ selectedAnswer # NoAnswer

\* C38: at most one score interval and one time interval are registered, both
\* or neither, each held by its ref; none is registered unless the last
\* render whose effects ran was of a round that plays.
C38_OnePairOfIntervals ==
    /\ scoreTimers <= 1 /\ timeTimers = scoreTimers
    /\ scoreIntervalRef <=> scoreTimers = 1
    /\ timerIntervalRef <=> timeTimers = 1
    /\ scoreTimers = 1 => (rendered.isPlaying /\ ~rendered.quizOver /\ ~unmounted)
    /\ (~Pending(Cur) /\ ~(isPlaying /\ ~quizOver)) => scoreTimers = 0

\* the beta iteration has run the tick effect again during play: one pair of
\* intervals, whose callbacks hold a score below the base points
C38_Witness ==
    /\ version = "beta" /\ isPlaying /\ ~quizOver /\ timeElapsed >= 1
    /\ scoreTimers = 1 /\ timeTimers = 1
    /\ tickClosure # NoClosure /\ tickClosure.score < basePoints * ScoreScale

\* C39: a wrong guess leaves the session score, the elapsed time, the track,
\* the correct answer, the answer set, the count of rounds played and the
\* phase of the round as they were; the selected answer becomes the wrong
\* answer that was offered.
C39_WrongGuessFrame ==
    [][ WrongAnswerTaken =>
            /\ UNCHANGED << sessionScore, timeElapsed, currentSong, correctAnswer, answers,
                            songsPlayed, roundsLoaded, quizOver, isPlaying, audio,
                            finalMessage, basePoints, timeLimit, numberOfSongs >>
            /\ selectedAnswer' \in BagToSet(answers)
            /\ ~SameName(selectedAnswer', correctAnswer) ]_vars

\* a wrong guess during play in a later round of the beta iteration
C39_Witness ==
    /\ version = "beta" /\ Playing /\ wrongGuesses = 1 /\ roundsLoaded > 1
    /\ sessionScore > 0 /\ sessionScore = frozenTotal
    /\ score < basePoints * ScoreScale /\ selectedAnswer # NoAnswer
    /\ feedbackMessage # ""

\* C40: in the configurable versions the session score is never negative.
C40_SessionScoreNonNegative ==
    Configurable(version) => sessionScore >= 0
====
